---- MODULE Spec2Model ----
(***************************************************************************)
(* Graphics-context bring-up and per-window renderer registry of the       *)
(* Vulkan-Rust application: App (winit ApplicationHandler), Engine (window *)
(* and renderer maps), Renderer and Context (instance, debug messenger,    *)
(* physical device, logical device, graphics queue).                       *)
(*                                                                         *)
(* The Vulkan driver is observed through `calls`, the sequence of driver   *)
(* calls the program has made, and the tracing subscriber through `log`.   *)
(***************************************************************************)
EXTENDS Integers, Sequences, FiniteSets, TLC

VARIABLES
    env,             \* build configuration and what the driver reports on this machine
    engine,          \* App::engine, Option<Engine>: <<>> is None, <<e>> is Some(e)
    held,            \* renderers owned directly by a caller of Renderer::new
    next_window_id,  \* the id winit gives the next window it creates
    exiting,         \* event_loop.exit() has been called
    status,          \* the process: "created", "running", "suspended", "exited", "panicked", "crashed"
    calls,           \* driver calls made so far, in order
    log,             \* tracing records emitted so far, in order
    last             \* the most recent operation and what it returned

vars == <<env, engine, held, next_window_id, exiting, status, calls, log, last>>

----------------------------------------------------------------------------
(* Bounds of the model *)

MaxWindows == 2
MaxResumes == 2
MaxDevices == 2
MaxFamilies == 2
MaxQueueFamilies == 3
MaxMessages == 2

----------------------------------------------------------------------------
(* Values *)

VALIDATION_LAYER == "VK_LAYER_KHRONOS_validation"

PORTABILITY_MACOS_VERSION == <<1, 3, 216>>

NullHandle == 0

EXT_DEBUG_UTILS == "VK_EXT_debug_utils"
KHR_GET_PHYSICAL_DEVICE_PROPERTIES2 == "VK_KHR_get_physical_device_properties2"
KHR_PORTABILITY_ENUMERATION == "VK_KHR_portability_enumeration"
KHR_PORTABILITY_SUBSET == "VK_KHR_portability_subset"
ENUMERATE_PORTABILITY_KHR == "ENUMERATE_PORTABILITY_KHR"

\* Capability flag sets a queue family may report.
QueueFlagSets == {{"TRANSFER"}, {"GRAPHICS", "TRANSFER"}, {"COMPUTE"}}

\* Window events winit delivers.
WindowEvents == {"CloseRequested", "Resized", "RedrawRequested"}

\* The driver or loader call that fails during one Context::create ("none": all succeed).
\* Calls after the first failing one are never made, so one name fixes the outcome.
FailPoints ==
    {"none", "LibloadingLoader::new", "Entry::new",
     "enumerate_instance_layer_properties", "version@create_instance",
     "create_instance", "create_debug_utils_messenger_ext",
     "enumerate_physical_devices", "version@create_logical_device",
     "create_device"}

\* What the build can do when a device is destroyed after its instance, and an
\* instance while its device is alive (invalid usage, undefined by the API).
UbOutcomes == {"completes", "crash_in_destroy_instance", "crash_in_destroy_device"}

Range(s) == {s[i] : i \in 1..Len(s)}

SeqsUpTo(S, n) == UNION {[1..k -> S] : k \in 0..n}

Orders(S) == {s \in [1..Cardinality(S) -> S] : Range(s) = S}

\* F applied to the value of v, computed once: `let x = v; F(x)`.
Bind(v, F(_)) == CHOOSE y \in {F(x) : x \in {v}} : TRUE

\* Version ordering: major, then minor, then patch.
Version_ge(a, b) ==
    \/ a[1] > b[1]
    \/ a[1] = b[1] /\ a[2] > b[2]
    \/ a[1] = b[1] /\ a[2] = b[2] /\ a[3] >= b[3]

----------------------------------------------------------------------------
(* Errors, log records, driver calls *)

NoError == [kind |-> "none", msg |-> ""]
Anyhow(msg) == [kind |-> "anyhow", msg |-> msg]
VkError(call) == [kind |-> "vk::ErrorCode", msg |-> call]
OsError(call) == [kind |-> "winit", msg |-> call]
\* #[error("Missing {0}.")] struct SuitabilityError(&'static str)
SuitabilityError(reason) == [kind |-> "SuitabilityError", msg |-> reason]

Record(level, text, device, detail) ==
    [level |-> level, text |-> text, device |-> device, detail |-> detail]

Call(op, handle, instance, physical_device, layers, extensions, flags, family) ==
    [op |-> op, handle |-> handle, instance |-> instance,
     physical_device |-> physical_device, layers |-> layers,
     extensions |-> extensions, flags |-> flags, family |-> family]

Query(op, instance, physical_device) ==
    Call(op, NullHandle, instance, physical_device, <<>>, <<>>, {}, -1)

CreateOps == {"create_instance", "create_debug_utils_messenger_ext", "create_device"}
DestroyOps == {"destroy_instance", "destroy_debug_utils_messenger_ext", "destroy_device"}

\* A create call that the driver rejects is recorded with the null handle.
Created(cs) ==
    {cs[i].handle : i \in {j \in 1..Len(cs) : cs[j].op \in CreateOps}} \ {NullHandle}

\* The driver never hands out the same handle twice.
NewHandle(cs) == 1 + Cardinality(Created(cs))

DestroyCount(cs, h) ==
    Cardinality({i \in 1..Len(cs) : cs[i].op \in DestroyOps /\ cs[i].handle = h})
Live(cs) == {h \in Created(cs) : DestroyCount(cs, h) = 0}

----------------------------------------------------------------------------
(* AppData and Context *)

NullQueue == [device |-> NullHandle, family |-> 0, index |-> 0]

NullData ==
    [messenger |-> NullHandle, physical_device |-> NullHandle,
     graphics_queue |-> NullQueue]

NullContext ==
    [entry |-> FALSE, instance |-> NullHandle, data |-> NullData, device |-> NullHandle]

----------------------------------------------------------------------------
(* QueueFamilyIndices *)

\* Iterator::rposition in the place of position: the last match.
PositionFrom_rposition(properties, i) ==
    LET matches == {k \in i..Len(properties) : "GRAPHICS" \in properties[k]}
    IN IF matches = {} THEN -1
       ELSE (CHOOSE k \in matches : \A m \in matches : m <= k) - 1

\* Iterator::position: the 0-based index of the first element that satisfies
\* the predicate, -1 standing for None.
PositionFrom(properties, i) ==
    LET RECURSIVE go(_)
        go(k) == IF k > Len(properties) THEN -1
                 ELSE IF "GRAPHICS" \in properties[k] THEN k - 1
                 ELSE go(k + 1)
    IN go(i)

QueueFamilyIndices_get(e, cs, instance, physical_device) ==
    LET properties == e.devices[physical_device]
        cs1 == Append(cs, Query("get_physical_device_queue_family_properties",
                                instance, physical_device))
        graphics == PositionFrom(properties, 1)
    IN IF graphics >= 0
       THEN [ok |-> TRUE, err |-> NoError, graphics |-> graphics, calls |-> cs1]
       ELSE [ok |-> FALSE, err |-> SuitabilityError("Missing required queue families."),
             graphics |-> -1, calls |-> cs1]

Context_check_physical_device(e, cs, instance, physical_device) ==
    LET r == QueueFamilyIndices_get(e, cs, instance, physical_device)
    IN [ok |-> r.ok, err |-> r.err, calls |-> r.calls]

----------------------------------------------------------------------------
(* Context::pick_physical_device *)

\* The loop without its early return: every device is examined and the last
\* suitable one is kept.
Context_pick_physical_device_no_return(e, fail_at, instance, data, cs, lg) ==
    LET RECURSIVE loop(_, _, _, _)
        loop(pd, c, l, sel) ==
            IF pd > Len(e.devices)
            THEN IF sel = NullHandle
                 THEN [ok |-> FALSE,
                       err |-> Anyhow("Failed to find suitable physical device."),
                       data |-> data, calls |-> c, log |-> l]
                 ELSE [ok |-> TRUE, err |-> NoError,
                       data |-> [data EXCEPT !.physical_device = sel],
                       calls |-> c, log |-> l]
            ELSE Bind(Context_check_physical_device(
                          e, Append(c, Query("get_physical_device_properties", instance, pd)),
                          instance, pd),
                      LAMBDA chk :
                        IF ~chk.ok
                        THEN Bind(Append(l, Record("warn", "Skipping physical device",
                                                   pd, chk.err.msg)),
                                  LAMBDA l1 : loop(pd + 1, chk.calls, l1, sel))
                        ELSE Bind(Append(l, Record("info", "Selected physical device",
                                                   pd, "")),
                                  LAMBDA l1 : loop(pd + 1, chk.calls, l1, pd)))
    IN IF fail_at = "enumerate_physical_devices"
       THEN [ok |-> FALSE, err |-> VkError("enumerate_physical_devices"), data |-> data,
             calls |-> Append(cs, Query("enumerate_physical_devices", instance, NullHandle)),
             log |-> lg]
       ELSE Bind(Append(cs, Query("enumerate_physical_devices", instance, NullHandle)),
                 LAMBDA cs0 : loop(1, cs0, lg, NullHandle))

Context_pick_physical_device(e, fail_at, instance, data, cs, lg) ==
    LET RECURSIVE loop(_, _, _)
        loop(pd, c, l) ==
            IF pd > Len(e.devices)
            THEN [ok |-> FALSE, err |-> Anyhow("Failed to find suitable physical device."),
                  data |-> data, calls |-> c, log |-> l]
            ELSE Bind(Context_check_physical_device(
                          e, Append(c, Query("get_physical_device_properties", instance, pd)),
                          instance, pd),
                      LAMBDA chk :
                        IF ~chk.ok
                        THEN Bind(Append(l, Record("warn", "Skipping physical device",
                                                   pd, chk.err.msg)),
                                  LAMBDA l1 : loop(pd + 1, chk.calls, l1))
                        ELSE [ok |-> TRUE, err |-> NoError,
                              data |-> [data EXCEPT !.physical_device = pd],
                              calls |-> chk.calls,
                              log |-> Append(l, Record("info", "Selected physical device",
                                                       pd, ""))])
    IN IF fail_at = "enumerate_physical_devices"
       THEN [ok |-> FALSE, err |-> VkError("enumerate_physical_devices"), data |-> data,
             calls |-> Append(cs, Query("enumerate_physical_devices", instance, NullHandle)),
             log |-> lg]
       ELSE Bind(Append(cs, Query("enumerate_physical_devices", instance, NullHandle)),
                 LAMBDA cs0 : loop(1, cs0, lg))

----------------------------------------------------------------------------
(* Context::create_instance *)

\* vk_window::get_required_instance_extensions(window): the surface extensions
\* of the platform the window lives on.
RequiredInstanceExtensions(e) ==
    IF e.macos THEN <<"VK_KHR_surface", "VK_EXT_metal_surface">>
    ELSE <<"VK_KHR_surface", "VK_KHR_xcb_surface">>

\* The layer check left out.
LayerMissing_unchecked(e, available_layers) == FALSE

\* if VALIDATION_ENABLED && !available_layers.contains(&VALIDATION_LAYER)
LayerMissing(e, available_layers) ==
    e.VALIDATION_ENABLED /\ VALIDATION_LAYER \notin available_layers

\* cfg!(target_os = "macos") && entry.version()? >= Version::new(1, 3, 216)
PortabilityInstance(e) == e.macos /\ Version_ge(e.version, <<1, 3, 216>>)

\* The device extension enabled only from the release after 1.3.216 on.
PortabilityDevice_after_threshold(e) ==
    e.macos /\ e.version # PORTABILITY_MACOS_VERSION
            /\ Version_ge(e.version, PORTABILITY_MACOS_VERSION)

\* cfg!(target_os = "macos") && entry.version()? >= PORTABILITY_MACOS_VERSION
PortabilityDevice(e) == e.macos /\ Version_ge(e.version, PORTABILITY_MACOS_VERSION)

\* layer_order: the order in which the HashSet of layer names is iterated.
Context_create_instance(e, fail_at, layer_order, data, cs, lg) ==
    LET Fail(err, d, c, l) ==
            [ok |-> FALSE, err |-> err, instance |-> NullHandle, data |-> d,
             calls |-> c, log |-> l]
        available_layers == Range(layer_order)
        lg1 == lg \o <<Record("info", "Available layers:", 0, "")>>
                  \o [i \in 1..Len(layer_order) |->
                          Record("info", "layer", 0, layer_order[i])]
        layers == IF e.VALIDATION_ENABLED THEN <<VALIDATION_LAYER>> ELSE <<>>
        ext1 == RequiredInstanceExtensions(e)
                  \o (IF e.VALIDATION_ENABLED THEN <<EXT_DEBUG_UTILS>> ELSE <<>>)
        extensions == IF PortabilityInstance(e)
                      THEN ext1 \o <<KHR_GET_PHYSICAL_DEVICE_PROPERTIES2,
                                     KHR_PORTABILITY_ENUMERATION>>
                      ELSE ext1
        flags == IF PortabilityInstance(e) THEN {ENUMERATE_PORTABILITY_KHR} ELSE {}
        instance == NewHandle(cs)
        cs1 == Append(cs, Call("create_instance", instance, instance, NullHandle,
                               layers, extensions, flags, -1))
        cs1f == Append(cs, Call("create_instance", NullHandle, NullHandle, NullHandle,
                                layers, extensions, flags, -1))
        messenger == NewHandle(cs1)
        cs2f == Append(cs1, Call("create_debug_utils_messenger_ext", NullHandle, instance,
                                 NullHandle, <<>>, <<>>, {}, -1))
        cs2 == Append(cs1, Call("create_debug_utils_messenger_ext", messenger, instance,
                                NullHandle, <<>>, <<>>, {}, -1))
    IN IF fail_at = "enumerate_instance_layer_properties"
       THEN Fail(VkError("enumerate_instance_layer_properties"), data, cs, lg)
       ELSE IF LayerMissing(e, available_layers)
       THEN Fail(Anyhow("Validation layer requested but not supported."), data, cs, lg1)
       ELSE IF e.macos /\ fail_at = "version@create_instance"
       THEN Fail(VkError("version"), data, cs, lg1)
       ELSE IF fail_at = "create_instance"
       THEN Fail(VkError("create_instance"), data, cs1f, lg1)
       ELSE IF ~e.VALIDATION_ENABLED
       THEN [ok |-> TRUE, err |-> NoError, instance |-> instance, data |-> data,
             calls |-> cs1, log |-> lg1]
       ELSE IF fail_at = "create_debug_utils_messenger_ext"
       THEN Fail(VkError("create_debug_utils_messenger_ext"), data, cs2f, lg1)
       ELSE [ok |-> TRUE, err |-> NoError, instance |-> instance,
             data |-> [data EXCEPT !.messenger = messenger],
             calls |-> cs2, log |-> lg1]

----------------------------------------------------------------------------
(* Context::create_logical_device *)

\* The device queue requested from family 0 whatever the suitability check found.
Context_create_logical_device_family_zero(e, fail_at, instance, data, cs) ==
    LET Fail(err, c) ==
            [ok |-> FALSE, err |-> err, device |-> NullHandle, data |-> data, calls |-> c]
        layers == IF e.VALIDATION_ENABLED THEN <<VALIDATION_LAYER>> ELSE <<>>
        extensions == IF PortabilityDevice(e) THEN <<KHR_PORTABILITY_SUBSET>> ELSE <<>>
    IN Bind(QueueFamilyIndices_get(e, cs, instance, data.physical_device),
            LAMBDA indices :
              IF ~indices.ok THEN Fail(indices.err, indices.calls)
              ELSE IF e.macos /\ fail_at = "version@create_logical_device"
              THEN Fail(VkError("version"), indices.calls)
              ELSE IF fail_at = "create_device"
              THEN Fail(VkError("create_device"),
                        Append(indices.calls,
                               Call("create_device", NullHandle, instance,
                                    data.physical_device, layers, extensions, {}, 0)))
              ELSE Bind(NewHandle(indices.calls),
                        LAMBDA device :
                          [ok |-> TRUE, err |-> NoError, device |-> device,
                           data |-> [data EXCEPT !.graphics_queue =
                                        [device |-> device, family |-> 0, index |-> 0]],
                           calls |-> indices.calls \o
                               <<Call("create_device", device, instance,
                                      data.physical_device, layers, extensions, {}, 0),
                                 Call("get_device_queue", device, instance,
                                      data.physical_device, <<>>, <<>>, {}, 0)>>]))

Context_create_logical_device(e, fail_at, instance, data, cs) ==
    LET Fail(err, c) ==
            [ok |-> FALSE, err |-> err, device |-> NullHandle, data |-> data, calls |-> c]
        layers == IF e.VALIDATION_ENABLED THEN <<VALIDATION_LAYER>> ELSE <<>>
        extensions == IF PortabilityDevice(e) THEN <<KHR_PORTABILITY_SUBSET>> ELSE <<>>
    IN Bind(QueueFamilyIndices_get(e, cs, instance, data.physical_device),
            LAMBDA indices :
              IF ~indices.ok THEN Fail(indices.err, indices.calls)
              ELSE IF e.macos /\ fail_at = "version@create_logical_device"
              THEN Fail(VkError("version"), indices.calls)
              ELSE IF fail_at = "create_device"
              THEN Fail(VkError("create_device"),
                        Append(indices.calls,
                               Call("create_device", NullHandle, instance,
                                    data.physical_device, layers, extensions, {},
                                    indices.graphics)))
              ELSE Bind(NewHandle(indices.calls),
                        LAMBDA device :
                          [ok |-> TRUE, err |-> NoError, device |-> device,
                           data |-> [data EXCEPT !.graphics_queue =
                                        [device |-> device, family |-> indices.graphics,
                                         index |-> 0]],
                           calls |-> indices.calls \o
                               <<Call("create_device", device, instance,
                                      data.physical_device, layers, extensions, {},
                                      indices.graphics),
                                 Call("get_device_queue", device, instance,
                                      data.physical_device, <<>>, <<>>, {},
                                      indices.graphics)>>]))

----------------------------------------------------------------------------
(* Context::debug_callback *)

\* vk::Bool32
vk == [FALSE |-> 0, TRUE |-> 1]

\* The bits of vk::DebugUtilsMessageSeverityFlagsEXT; the flags compare as the
\* integers that hold them.
DebugUtilsMessageSeverityFlagsEXT ==
    [VERBOSE |-> 1, INFO |-> 16, WARNING |-> 256, ERROR |-> 4096]

\* The driver reports one severity bit with each message.
Severities ==
    {DebugUtilsMessageSeverityFlagsEXT[k] : k \in DOMAIN DebugUtilsMessageSeverityFlagsEXT}

\* The message types the messenger is registered for, in bit order.
MessageTypeBits == <<"GENERAL", "VALIDATION", "PERFORMANCE">>

MessageTypes == (SUBSET Range(MessageTypeBits)) \ {{}}

Messages == {"", "validation message"}

\* {:?} of a flag set: the names of the bits that are set, in bit order,
\* joined by " | ".
Debug_flags(type_) ==
    LET RECURSIVE Join(_, _)
        Join(i, acc) ==
            IF i > Len(MessageTypeBits) THEN acc
            ELSE IF MessageTypeBits[i] \notin type_ THEN Join(i + 1, acc)
            ELSE Join(i + 1, IF acc = "" THEN MessageTypeBits[i]
                             ELSE acc \o " | " \o MessageTypeBits[i])
    IN Join(1, "")

\* INFO forwarded at the info level.
Context_debug_callback_info_as_info(severity, type_, message, lg) ==
    LET level == IF severity >= DebugUtilsMessageSeverityFlagsEXT.ERROR THEN "error"
                 ELSE IF severity >= DebugUtilsMessageSeverityFlagsEXT.WARNING THEN "warn"
                 ELSE IF severity >= DebugUtilsMessageSeverityFlagsEXT.INFO THEN "info"
                 ELSE "trace"
    IN [ret |-> vk.FALSE,
        log |-> Append(lg, Record(level, "({:?}) {}", 0,
                                  "(" \o Debug_flags(type_) \o ") " \o message))]

\* An error message asking the driver to abort the call that triggered it.
Context_debug_callback_abort_on_error(severity, type_, message, lg) ==
    LET level == IF severity >= DebugUtilsMessageSeverityFlagsEXT.ERROR THEN "error"
                 ELSE IF severity >= DebugUtilsMessageSeverityFlagsEXT.WARNING THEN "warn"
                 ELSE IF severity >= DebugUtilsMessageSeverityFlagsEXT.INFO THEN "debug"
                 ELSE "trace"
    IN [ret |-> IF level = "error" THEN vk.TRUE ELSE vk.FALSE,
        log |-> Append(lg, Record(level, "({:?}) {}", 0,
                                  "(" \o Debug_flags(type_) \o ") " \o message))]

\* The user-data pointer is ignored; the one effect is the tracing record.
Context_debug_callback(severity, type_, message, lg) ==
    LET level == IF severity >= DebugUtilsMessageSeverityFlagsEXT.ERROR THEN "error"
                 ELSE IF severity >= DebugUtilsMessageSeverityFlagsEXT.WARNING THEN "warn"
                 ELSE IF severity >= DebugUtilsMessageSeverityFlagsEXT.INFO THEN "debug"
                 ELSE "trace"
    IN [ret |-> vk.FALSE,
        log |-> Append(lg, Record(level, "({:?}) {}", 0,
                                  "(" \o Debug_flags(type_) \o ") " \o message))]

\* The records of a log that debug_callback wrote.
CallbackRecords(lg) == {i \in 1..Len(lg) : lg[i].text = "({:?}) {}"}

----------------------------------------------------------------------------
(* Context::create, Context::destroy, Renderer *)

Context_create(e, fail_at, layer_order, cs, lg) ==
    LET Fail(err, c, l) ==
            [ok |-> FALSE, err |-> err, context |-> NullContext, calls |-> c, log |-> l]
    IN IF fail_at = "LibloadingLoader::new"
       THEN Fail([kind |-> "loader", msg |-> "LibloadingLoader::new"], cs, lg)
       ELSE IF fail_at = "Entry::new"
       THEN Fail(Anyhow("Entry::new"), cs, lg)
       ELSE Bind(Context_create_instance(e, fail_at, layer_order, NullData, cs, lg),
            LAMBDA inst :
              IF ~inst.ok THEN Fail(inst.err, inst.calls, inst.log)
              ELSE Bind(Context_pick_physical_device(e, fail_at, inst.instance, inst.data,
                                                     inst.calls, inst.log),
                   LAMBDA pick :
                     IF ~pick.ok THEN Fail(pick.err, pick.calls, pick.log)
                     ELSE Bind(Context_create_logical_device(e, fail_at, inst.instance,
                                                             pick.data, pick.calls),
                          LAMBDA dev :
                            IF ~dev.ok THEN Fail(dev.err, dev.calls, pick.log)
                            ELSE [ok |-> TRUE, err |-> NoError,
                                  context |-> [entry |-> TRUE, instance |-> inst.instance,
                                               data |-> dev.data, device |-> dev.device],
                                  calls |-> dev.calls, log |-> pick.log])))

\* The instance is destroyed while its device is alive and the device after its
\* instance: the API leaves both undefined, ub is what the build does with them.
Context_destroy(self, e, ub, cs) ==
    LET Destroy(op, h) ==
            Call(op, h, self.instance, NullHandle, <<>>, <<>>, {}, -1)
        cs1 == IF e.VALIDATION_ENABLED
               THEN Append(cs, Destroy("destroy_debug_utils_messenger_ext",
                                       self.data.messenger))
               ELSE cs
        cs2 == Append(cs1, Destroy("destroy_instance", self.instance))
        cs3 == Append(cs2, Destroy("destroy_device", self.device))
    IN IF ub = "crash_in_destroy_instance" THEN [crashed |-> TRUE, calls |-> cs2]
       ELSE IF ub = "crash_in_destroy_device" THEN [crashed |-> TRUE, calls |-> cs3]
       ELSE [crashed |-> FALSE, calls |-> cs3]

Renderer_new(e, fail_at, layer_order, cs, lg) ==
    Bind(Context_create(e, fail_at, layer_order, cs, lg),
         LAMBDA c : [ok |-> c.ok, err |-> c.err, renderer |-> [context |-> c.context],
                     calls |-> c.calls, log |-> c.log])

\* Neither Renderer nor Context implements Drop, and the driver wrappers they
\* hold release nothing when dropped: dropping a renderer makes no driver call.
Renderer_drop(renderer, cs) == cs

----------------------------------------------------------------------------
(* Engine *)

MapRemove(m, k) == [x \in DOMAIN m \ {k} |-> m[x]]
MapInsert(m, k, v) == [x \in DOMAIN m \cup {k} |-> IF x = k THEN v ELSE m[x]]
EmptyMap == [x \in {} |-> x]

\* window_ok: event_loop.create_window succeeds, giving the window the id `id`.
\* `panicked`: Renderer::new(..).unwrap() hit an Err.
Engine_new(e, window_ok, id, fail_at, layer_order, cs, lg) ==
    LET primary_window_id == id
        windows == MapInsert(EmptyMap, primary_window_id, [title |-> "winit window"])
    IN IF ~window_ok
       THEN [ok |-> FALSE, panicked |-> FALSE, err |-> OsError("create_window"),
             engine |-> <<>>, window_created |-> FALSE, calls |-> cs, log |-> lg]
       ELSE Bind(Renderer_new(e, fail_at, layer_order, cs, lg),
            LAMBDA r :
              IF ~r.ok
              THEN [ok |-> FALSE, panicked |-> TRUE, err |-> r.err, engine |-> <<>>,
                    window_created |-> TRUE, calls |-> r.calls, log |-> r.log]
              ELSE [ok |-> TRUE, panicked |-> FALSE, err |-> NoError,
                    engine |-> <<[renderers |-> MapInsert(EmptyMap, primary_window_id,
                                                          r.renderer),
                                  windows |-> windows,
                                  primary_window_id |-> primary_window_id]>>,
                    window_created |-> TRUE, calls |-> r.calls, log |-> r.log])

\* The close handler without the primary-window test: every close removes.
Engine_window_event_always_removes(self, window_id, event, cs) ==
    IF event = "CloseRequested"
    THEN [self |-> [self EXCEPT !.windows = MapRemove(@, window_id),
                                !.renderers = MapRemove(@, window_id)],
          exit |-> window_id = self.primary_window_id,
          removed |-> IF window_id \in DOMAIN self.renderers
                      THEN {self.renderers[window_id]} ELSE {},
          calls |-> cs]
    ELSE [self |-> self, exit |-> FALSE, removed |-> {}, calls |-> cs]

\* The handler without the match on the event: every event closes.
Engine_window_event_any_event(self, window_id, event, cs) ==
    IF window_id = self.primary_window_id
    THEN [self |-> self, exit |-> TRUE, removed |-> {}, calls |-> cs]
    ELSE [self |-> [self EXCEPT !.windows = MapRemove(@, window_id),
                                !.renderers = MapRemove(@, window_id)],
          exit |-> FALSE,
          removed |-> IF window_id \in DOMAIN self.renderers
                      THEN {self.renderers[window_id]} ELSE {},
          calls |-> cs]

\* `removed`: what renderers.remove(&window_id) returned, dropped at the end of
\* the statement.
Engine_window_event(self, window_id, event, cs) ==
    LET removed == IF window_id \in DOMAIN self.renderers
                   THEN {self.renderers[window_id]} ELSE {}
        RECURSIVE DropAll(_, _)
        DropAll(rs, c) ==
            IF rs = {} THEN c
            ELSE LET r == CHOOSE x \in rs : TRUE
                 IN DropAll(rs \ {r}, Renderer_drop(r, c))
    IN IF event = "CloseRequested"
       THEN IF window_id = self.primary_window_id
            THEN [self |-> self, exit |-> TRUE, removed |-> {}, calls |-> cs]
            ELSE [self |-> [self EXCEPT !.windows = MapRemove(@, window_id),
                                        !.renderers = MapRemove(@, window_id)],
                  exit |-> FALSE, removed |-> removed, calls |-> DropAll(removed, cs)]
       ELSE [self |-> self, exit |-> FALSE, removed |-> {}, calls |-> cs]

\* The renderer entry written before the result of Renderer::new is examined.
Engine_create_window_inserts_unchecked(self, e, window_ok, id, title, fail_at, layer_order, cs, lg) ==
    LET window_id == id
        self1 == [self EXCEPT !.windows = MapInsert(@, window_id, [title |-> title])]
    IN IF ~window_ok
       THEN [ok |-> FALSE, err |-> OsError("create_window"), window_id |-> NullHandle,
             self |-> self, window_created |-> FALSE, calls |-> cs, log |-> lg]
       ELSE Bind(Renderer_new(e, fail_at, layer_order, cs, lg),
            LAMBDA r :
              [ok |-> r.ok, err |-> r.err,
               window_id |-> IF r.ok THEN window_id ELSE NullHandle,
               self |-> [self1 EXCEPT !.renderers =
                            MapInsert(@, window_id, r.renderer)],
               window_created |-> TRUE, calls |-> r.calls, log |-> r.log])

Engine_create_window(self, e, window_ok, id, title, fail_at, layer_order, cs, lg) ==
    LET window_id == id
        self1 == [self EXCEPT !.windows = MapInsert(@, window_id, [title |-> title])]
    IN IF ~window_ok
       THEN [ok |-> FALSE, err |-> OsError("create_window"), window_id |-> NullHandle,
             self |-> self, window_created |-> FALSE, calls |-> cs, log |-> lg]
       ELSE Bind(Renderer_new(e, fail_at, layer_order, cs, lg),
            LAMBDA r :
              IF ~r.ok
              THEN [ok |-> FALSE, err |-> r.err, window_id |-> NullHandle,
                    self |-> self1, window_created |-> TRUE,
                    calls |-> r.calls, log |-> r.log]
              ELSE [ok |-> TRUE, err |-> NoError, window_id |-> window_id,
                    self |-> [self1 EXCEPT !.renderers =
                                 MapInsert(@, window_id, r.renderer)],
                    window_created |-> TRUE, calls |-> r.calls, log |-> r.log])

\* Dropping an Engine drops both maps and with them every renderer.
Engine_drop(self, cs) ==
    LET RECURSIVE DropAll(_, _)
        DropAll(ids, c) ==
            IF ids = {} THEN c
            ELSE LET k == CHOOSE x \in ids : TRUE
                 IN DropAll(ids \ {k}, Renderer_drop(self.renderers[k], c))
    IN DropAll(DOMAIN self.renderers, cs)

----------------------------------------------------------------------------
(* The record of the most recent operation *)

\* `ret`: the plain value a call returned, for the calls that return one;
\* `args`: the arguments of a call that the other fields do not hold.
Last(op, ok, err, window_id, event, got_window, removed, data, mark) ==
    [op |-> op, ok |-> ok, err |-> err, window_id |-> window_id, event |-> event,
     got_window |-> got_window, removed |-> removed, data |-> data, mark |-> mark,
     ret |-> 0, args |-> <<>>]

NoLast == Last("none", TRUE, NoError, NullHandle, "", FALSE, {}, NullData, 0)

----------------------------------------------------------------------------
(* App: the winit ApplicationHandler *)

\* self.engine = Some(Engine::new(event_loop).unwrap()), then
\* engine.create_window(..).unwrap(): either unwrap panics on an Err.
App_resumed(e, id, window_ok1, fail_at1, order1, window_ok2, fail_at2, order2, cs, lg) ==
    Bind(Engine_new(e, window_ok1, id, fail_at1, order1, cs, lg),
         LAMBDA n :
           IF ~n.ok
           THEN [panicked |-> TRUE, err |-> n.err, engine |-> <<>>,
                 windows_created |-> IF n.window_created THEN 1 ELSE 0,
                 calls |-> n.calls, log |-> n.log]
           ELSE Bind(Engine_create_window(n.engine[1], e, window_ok2, id + 1,
                                          "secondary window", fail_at2, order2,
                                          n.calls, n.log),
                LAMBDA c :
                  [panicked |-> ~c.ok, err |-> c.err, engine |-> <<c.self>>,
                   windows_created |-> IF c.window_created THEN 2 ELSE 1,
                   calls |-> c.calls, log |-> c.log]))

\* Every CloseRequested asks the event loop to exit; window_id is not looked at
\* and the engine is not told.
App_window_event(self_engine, window_id, event) ==
    IF event = "CloseRequested"
    THEN [engine |-> self_engine, exit |-> TRUE]
    ELSE [engine |-> self_engine, exit |-> FALSE]

\* self.engine = None drops the engine that was there.
App_suspended(self_engine, cs) ==
    [engine |-> <<>>,
     calls |-> IF self_engine = <<>> THEN cs ELSE Engine_drop(self_engine[1], cs)]

----------------------------------------------------------------------------
(* Initial states *)

TypicalVersions == {<<1, 2, 250>>, <<1, 3, 215>>, <<1, 3, 216>>, <<1, 4, 0>>}

TypicalLayerSets ==
    {{"VK_LAYER_LUNARG_api_dump"}, {VALIDATION_LAYER, "VK_LAYER_LUNARG_api_dump"}}

\* No device; one device without a graphics family; an unsuitable device
\* followed by one whose second family has graphics.
TypicalDeviceLists ==
    {<<>>,
     << <<{"COMPUTE"}>> >>,
     << <<{"TRANSFER"}>>, <<{"TRANSFER"}, {"GRAPHICS", "TRANSFER"}>> >>}

\* The driver version is read on macOS only; elsewhere one version stands for all.
Machines ==
    {m \in [VALIDATION_ENABLED : BOOLEAN, macos : BOOLEAN, version : TypicalVersions,
            layers : TypicalLayerSets, devices : TypicalDeviceLists] :
        ~m.macos => m.version = PORTABILITY_MACOS_VERSION}

\* Every list of at most MaxDevices devices of at most MaxFamilies families each.
AllDeviceLists == SeqsUpTo(SeqsUpTo(QueueFlagSets, MaxFamilies), MaxDevices)

InitRest ==
    /\ engine = <<>>
    /\ held = {}
    /\ next_window_id = 1
    /\ exiting = FALSE
    /\ calls = <<>>
    /\ log = <<>>
    /\ last = NoLast

\* A caller that drives the Engine's methods directly.
Init ==
    /\ env \in Machines
    /\ status = "running"
    /\ InitRest

\* main(): App::default() handed to the event loop, not yet resumed.
AppInit ==
    /\ env \in Machines
    /\ status = "created"
    /\ InitRest

\* A caller inside the context module that drives Renderer and Context directly.
CtxInit ==
    /\ env \in Machines
    /\ status = "running"
    /\ InitRest

\* A caller of Context::pick_physical_device on every machine within the bounds.
SelInit ==
    /\ env \in [VALIDATION_ENABLED : {FALSE}, macos : {FALSE},
                version : {PORTABILITY_MACOS_VERSION}, layers : {{}},
                devices : AllDeviceLists]
    /\ status = "running"
    /\ InitRest

----------------------------------------------------------------------------
(* Actions: calls of the Engine's methods *)

EngineNew ==
    /\ status = "running"
    /\ engine = <<>>
    /\ next_window_id <= MaxWindows
    /\ \E window_ok \in BOOLEAN, fail_at \in FailPoints, order \in Orders(env.layers) :
         \E r \in {Engine_new(env, window_ok, next_window_id, fail_at, order, calls, log)} :
            /\ engine' = r.engine
            /\ status' = IF r.panicked THEN "panicked" ELSE status
            /\ next_window_id' = IF r.window_created THEN next_window_id + 1
                                 ELSE next_window_id
            /\ calls' = r.calls
            /\ log' = r.log
            /\ last' = Last("Engine::new", r.ok, r.err,
                            IF r.window_created THEN next_window_id ELSE NullHandle,
                            "", r.window_created, {}, NullData, Len(calls))
    /\ UNCHANGED <<env, held, exiting>>

EngineCreateWindow ==
    /\ status = "running"
    /\ engine # <<>>
    /\ next_window_id <= MaxWindows
    /\ \E window_ok \in BOOLEAN, fail_at \in FailPoints, order \in Orders(env.layers) :
         \E r \in {Engine_create_window(engine[1], env, window_ok, next_window_id,
                                       "secondary window", fail_at, order, calls, log)} :
            /\ engine' = <<r.self>>
            /\ next_window_id' = IF r.window_created THEN next_window_id + 1
                                 ELSE next_window_id
            /\ calls' = r.calls
            /\ log' = r.log
            /\ last' = Last("Engine::create_window", r.ok, r.err,
                            IF r.window_created THEN next_window_id ELSE NullHandle,
                            "", r.window_created, {}, NullData, Len(calls))
    /\ UNCHANGED <<env, held, exiting, status>>

EngineWindowEvent ==
    /\ status = "running"
    /\ engine # <<>>
    /\ \E window_id \in 1..MaxWindows, event \in WindowEvents :
         \E r \in {Engine_window_event(engine[1], window_id, event, calls)} :
            /\ engine' = <<r.self>>
            /\ exiting' = (exiting \/ r.exit)
            /\ calls' = r.calls
            /\ last' = Last("Engine::window_event", TRUE, NoError, window_id, event,
                            FALSE, r.removed, NullData, Len(calls))
    /\ UNCHANGED <<env, held, next_window_id, status, log>>

Next == EngineNew \/ EngineCreateWindow \/ EngineWindowEvent

Spec == Init /\ [][Next]_vars

----------------------------------------------------------------------------
(* Actions: the event loop calling the App *)

AppResumed ==
    /\ status \in {"created", "suspended"}
    /\ ~exiting
    /\ (next_window_id - 1) \div 2 < MaxResumes
    /\ \E window_ok1 \in BOOLEAN, fail_at1 \in FailPoints, order1 \in Orders(env.layers),
          window_ok2 \in BOOLEAN, fail_at2 \in FailPoints, order2 \in Orders(env.layers) :
         \E r \in {App_resumed(env, next_window_id, window_ok1, fail_at1, order1,
                              window_ok2, fail_at2, order2, calls, log)} :
            /\ engine' = r.engine
            /\ status' = IF r.panicked THEN "panicked" ELSE "running"
            /\ next_window_id' = next_window_id + r.windows_created
            /\ calls' = r.calls
            /\ log' = r.log
            /\ last' = Last("App::resumed", ~r.panicked, r.err, NullHandle, "",
                            r.windows_created > 0, {}, NullData, Len(calls))
    /\ UNCHANGED <<env, held, exiting>>

\* winit delivers window events for the windows that exist. Each resume that
\* returned has created two windows, which bounds the resumes.
AppWindowEvent ==
    /\ status = "running"
    /\ ~exiting
    /\ engine # <<>>
    /\ \E window_id \in DOMAIN engine[1].windows, event \in WindowEvents :
         \E r \in {App_window_event(engine, window_id, event)} :
            /\ engine' = r.engine
            /\ exiting' = (exiting \/ r.exit)
            /\ last' = Last("App::window_event", TRUE, NoError, window_id, event,
                            FALSE, {}, NullData, Len(calls))
    /\ UNCHANGED <<env, held, next_window_id, status, calls, log>>

AppSuspended ==
    /\ status = "running"
    /\ ~exiting
    /\ \E r \in {App_suspended(engine, calls)} :
          /\ engine' = r.engine
          /\ calls' = r.calls
    /\ status' = "suspended"
    /\ last' = Last("App::suspended", TRUE, NoError, NullHandle, "", FALSE, {},
                    NullData, Len(calls))
    /\ UNCHANGED <<env, held, next_window_id, exiting, log>>

\* run_app returns once exit was requested; main returns and `app` is dropped.
MainReturn ==
    /\ status \in {"running", "suspended"}
    /\ exiting
    /\ \E r \in {App_suspended(engine, calls)} :
          /\ engine' = r.engine
          /\ calls' = r.calls
    /\ status' = "exited"
    /\ last' = Last("main", TRUE, NoError, NullHandle, "", FALSE, {}, NullData, Len(calls))
    /\ UNCHANGED <<env, held, next_window_id, exiting, log>>

AppNext == AppResumed \/ AppWindowEvent \/ AppSuspended \/ MainReturn

AppSpec == AppInit /\ [][AppNext]_vars

----------------------------------------------------------------------------
(* Actions: calls of Renderer::new and Context::destroy *)

RendererNew ==
    /\ status = "running"
    /\ next_window_id <= MaxWindows
    /\ \E fail_at \in FailPoints, order \in Orders(env.layers) :
         \E r \in {Renderer_new(env, fail_at, order, calls, log)} :
            /\ held' = IF r.ok THEN held \cup {r.renderer} ELSE held
            /\ calls' = r.calls
            /\ log' = r.log
            /\ last' = Last("Renderer::new", r.ok, r.err, next_window_id, "", TRUE, {},
                            r.renderer.context.data, Len(calls))
    /\ next_window_id' = next_window_id + 1
    /\ UNCHANGED <<env, engine, exiting, status>>

\* context.destroy() on a held renderer, which is then dropped.
ContextDestroy ==
    /\ status = "running"
    /\ \E r \in held, ub \in UbOutcomes :
         \E d \in {Context_destroy(r.context, env, ub, calls)} :
            /\ held' = held \ {r}
            /\ calls' = Renderer_drop(r, d.calls)
            /\ status' = IF d.crashed THEN "crashed" ELSE status
            /\ last' = Last("Context::destroy", TRUE, NoError, NullHandle, "", FALSE,
                            {r}, r.context.data, Len(calls))
    /\ UNCHANGED <<env, engine, next_window_id, exiting, log>>

\* A held renderer goes out of scope without destroy().
RendererDrop ==
    /\ status = "running"
    /\ \E r \in held :
         /\ held' = held \ {r}
         /\ calls' = Renderer_drop(r, calls)
         /\ last' = Last("drop", TRUE, NoError, NullHandle, "", FALSE, {r},
                         r.context.data, Len(calls))
    /\ UNCHANGED <<env, engine, next_window_id, exiting, status, log>>

CtxNext == RendererNew \/ ContextDestroy \/ RendererDrop

CtxSpec == CtxInit /\ [][CtxNext]_vars

----------------------------------------------------------------------------
(* Actions: a call of Context::pick_physical_device *)

PickPhysicalDevice ==
    /\ status = "running"
    /\ last.op = "none"
    /\ \E instance \in 1..MaxWindows,
          fail_at \in {"none", "enumerate_physical_devices"} :
         \E r \in {Context_pick_physical_device(env, fail_at, instance, NullData, calls, log)} :
            /\ calls' = r.calls
            /\ log' = r.log
            /\ last' = Last("Context::pick_physical_device", r.ok, r.err, instance, "",
                            FALSE, {}, r.data, Len(calls))
    /\ UNCHANGED <<env, engine, held, next_window_id, exiting, status>>

SelNext == PickPhysicalDevice

SelSpec == SelInit /\ [][SelNext]_vars

----------------------------------------------------------------------------
(* Actions: a call of QueueFamilyIndices::get *)

\* One device with every list of at most MaxQueueFamilies queue families.
QfiInit ==
    /\ env \in [VALIDATION_ENABLED : {FALSE}, macos : {FALSE},
                version : {PORTABILITY_MACOS_VERSION}, layers : {{}},
                devices : {<<d>> : d \in SeqsUpTo(QueueFlagSets, MaxQueueFamilies)}]
    /\ status = "running"
    /\ InitRest

QueueFamilyIndicesGet ==
    /\ status = "running"
    /\ last.op = "none"
    /\ \E instance \in 1..MaxWindows, physical_device \in 1..Len(env.devices) :
         \E r \in {QueueFamilyIndices_get(env, calls, instance, physical_device)} :
            /\ calls' = r.calls
            /\ last' = [Last("QueueFamilyIndices::get", r.ok, r.err, instance, "",
                             FALSE, {}, NullData, Len(calls))
                            EXCEPT !.ret = r.graphics]
    /\ UNCHANGED <<env, engine, held, next_window_id, exiting, status, log>>

QfiNext == QueueFamilyIndicesGet

QfiSpec == QfiInit /\ [][QfiNext]_vars

----------------------------------------------------------------------------
(* Context creation on every platform and driver version *)

\* Versions below, at and above 1.3.216 in each of the three components.
PortabilityVersions ==
    {<<major, minor, patch>> : major \in {0, 1, 2}, minor \in {2, 3, 4},
                               patch \in {0, 215, 216, 217}}

\* Both platforms with every version, and a device that can be selected.
PortInit ==
    /\ env \in [VALIDATION_ENABLED : {FALSE}, macos : BOOLEAN,
                version : PortabilityVersions, layers : {{}},
                devices : {<<<<{"GRAPHICS", "TRANSFER"}>>>>}]
    /\ status = "running"
    /\ InitRest

PortSpec == PortInit /\ [][CtxNext]_vars

----------------------------------------------------------------------------
(* Actions: calls of Context::debug_callback *)

\* A machine with diagnostics enabled on which a context can be created.
CbInit ==
    /\ env \in {m \in Machines : m.VALIDATION_ENABLED /\ VALIDATION_LAYER \in m.layers
                                  /\ ~m.macos
                                  /\ \E i \in 1..Len(m.devices) :
                                        PositionFrom(m.devices[i], 1) >= 0}
    /\ status = "running"
    /\ InitRest

\* A direct call with every severity, set of types and message.
DebugCallback ==
    /\ status = "running"
    /\ Cardinality(CallbackRecords(log)) < MaxMessages
    /\ \E severity \in Severities, type_ \in MessageTypes, message \in Messages :
         \E r \in {Context_debug_callback(severity, type_, message, log)} :
            /\ log' = r.log
            /\ last' = [Last("Context::debug_callback", TRUE, NoError, NullHandle, "",
                             FALSE, {}, NullData, Len(calls))
                            EXCEPT !.ret = r.ret,
                                   !.args = <<severity, type_, message>>]
    /\ UNCHANGED <<env, engine, held, next_window_id, exiting, status, calls>>

CbNext == DebugCallback

CbSpec == CbInit /\ [][CbNext]_vars

\* A loader message and a validation error, as the layers send them.
TypicalDriverMessages ==
    {<<DebugUtilsMessageSeverityFlagsEXT.VERBOSE, {"GENERAL"}, "">>,
     <<DebugUtilsMessageSeverityFlagsEXT.ERROR, {"VALIDATION"}, "validation message">>}

\* A callback that reaches the engine through its user-data pointer and
\* empties the renderers map.
DriverDebugCallback_clears_renderers ==
    /\ status = "running"
    /\ engine # <<>>
    /\ Cardinality(CallbackRecords(log)) < MaxMessages
    /\ \E m \in TypicalDriverMessages :
         \E r \in {Context_debug_callback(m[1], m[2], m[3], log)} :
            /\ log' = r.log
            /\ last' = [Last("Context::debug_callback", TRUE, NoError, NullHandle, "",
                             FALSE, {}, NullData, Len(calls))
                            EXCEPT !.ret = r.ret, !.args = m]
    /\ engine' = <<[engine[1] EXCEPT !.renderers = EmptyMap]>>
    /\ UNCHANGED <<env, held, next_window_id, exiting, status, calls>>

\* The driver calls back, between two calls of the Engine's methods, while a
\* messenger it created is alive.
DriverDebugCallback ==
    /\ status = "running"
    /\ \E i \in 1..Len(calls) :
           /\ calls[i].op = "create_debug_utils_messenger_ext"
           /\ calls[i].handle \in Live(calls)
    /\ Cardinality(CallbackRecords(log)) < MaxMessages
    /\ \E m \in TypicalDriverMessages :
         \E r \in {Context_debug_callback(m[1], m[2], m[3], log)} :
            /\ log' = r.log
            /\ last' = [Last("Context::debug_callback", TRUE, NoError, NullHandle, "",
                             FALSE, {}, NullData, Len(calls))
                            EXCEPT !.ret = r.ret, !.args = m]
    /\ UNCHANGED <<env, engine, held, next_window_id, exiting, status, calls>>

\* A machine with diagnostics enabled, the validation layer alone and one
\* device that can be selected.
DbgInit ==
    /\ env \in [VALIDATION_ENABLED : {TRUE}, macos : {FALSE},
                version : {PORTABILITY_MACOS_VERSION}, layers : {{VALIDATION_LAYER}},
                devices : {<<<<{"GRAPHICS", "TRANSFER"}>>>>}]
    /\ status = "running"
    /\ InitRest

DbgNext == EngineNew \/ EngineCreateWindow \/ EngineWindowEvent \/ DriverDebugCallback

DbgSpec == DbgInit /\ [][DbgNext]_vars

----------------------------------------------------------------------------
(* Properties *)

WindowKeys == IF engine = <<>> THEN {} ELSE DOMAIN engine[1].windows
RendererKeys == IF engine = <<>> THEN {} ELSE DOMAIN engine[1].renderers
IsPrimary(window_id) == engine # <<>> /\ window_id = engine[1].primary_window_id

\* Handles the driver handed out in calls made after position `mark`.
CreatedSince(mark) ==
    {calls[i].handle : i \in {j \in 1..Len(calls) : j > mark /\ calls[j].op \in CreateOps}}
        \ {NullHandle}

\* C1: after every Engine::new, Engine::create_window and Engine::window_event
\* call, the windows map and the renderers map have the same keys.
C1_KeySetsEqual == WindowKeys = RendererKeys

\* C2: when Engine::create_window got its window and returned an error (the
\* renderer could not be made), the registry has no entry for the new window
\* id, no window is without a renderer, and both maps have the same size.
C2_FailedCreateLeavesNoEntry ==
    (last.op = "Engine::create_window" /\ last.got_window /\ ~last.ok) =>
        /\ last.window_id \notin WindowKeys
        /\ WindowKeys \ RendererKeys = {}
        /\ Cardinality(WindowKeys) = Cardinality(RendererKeys)

\* C3: a close request that App::window_event handles for a window other than
\* the primary one removes that window's two entries and does not ask the event
\* loop to exit.
C3_SecondaryCloseOnlyRemoves ==
    (last.op = "App::window_event" /\ last.event = "CloseRequested"
        /\ ~IsPrimary(last.window_id)) =>
        /\ ~exiting
        /\ last.window_id \notin WindowKeys
        /\ last.window_id \notin RendererKeys

\* C4: Engine::window_event(CloseRequested) for the primary window asks the
\* event loop to exit and leaves both maps as they were, and as long as the
\* engine exists primary_window_id is a key of both maps.
C4_PrimaryStaysRegistered ==
    /\ [](engine # <<>> =>
            /\ engine[1].primary_window_id \in WindowKeys
            /\ engine[1].primary_window_id \in RendererKeys)
    /\ [][(/\ engine # <<>>
           /\ last'.op = "Engine::window_event"
           /\ last'.event = "CloseRequested"
           /\ last'.window_id = engine[1].primary_window_id)
          => (engine' = engine /\ exiting' /\ last'.removed = {})]_vars

C4_Witness ==
    /\ engine # <<>>
    /\ last.op = "Engine::window_event"
    /\ last.event = "CloseRequested"
    /\ last.window_id = engine[1].primary_window_id
    /\ exiting
    /\ Cardinality(WindowKeys) = 2
    /\ WindowKeys = RendererKeys

\* C5: the instance is released last: every handle created from an instance
\* has been released before the instance is destroyed, and no driver call
\* names an instance after the call that destroyed it.
C5_InstanceReleasedLast ==
    \A i \in 1..Len(calls) :
        calls[i].op = "destroy_instance" =>
            /\ \A j \in 1..Len(calls) :
                 (calls[j].instance = calls[i].handle) => j <= i
            /\ \A j \in 1..Len(calls) :
                 (/\ calls[j].op \in {"create_debug_utils_messenger_ext", "create_device"}
                  /\ calls[j].handle # NullHandle
                  /\ calls[j].instance = calls[i].handle)
                 => \E k \in 1..(i - 1) :
                        calls[k].op \in DestroyOps /\ calls[k].handle = calls[j].handle

\* C6: once Engine::window_event has removed a renderer, its instance, its
\* device and its debug messenger (when it has one) have each been released
\* exactly once, and no handle is ever released twice.
C6_RemovedContextDestroyedOnce ==
    /\ last.op = "Engine::window_event" =>
         \A r \in last.removed :
            /\ DestroyCount(calls, r.context.instance) = 1
            /\ DestroyCount(calls, r.context.device) = 1
            /\ r.context.data.messenger # NullHandle =>
                   DestroyCount(calls, r.context.data.messenger) = 1
    /\ \A h \in Created(calls) : DestroyCount(calls, h) <= 1

\* C7: once the application has exited after a close request, or has been
\* suspended, every handle the driver handed out has been released.
C7_NoLiveHandleAfterShutdown ==
    status \in {"exited", "suspended"} => Live(calls) = {}

\* C8: when Context::create fails, every handle the driver handed out during
\* that call has been released by the time the error is returned.
C8_FailedCreateBalances ==
    (last.op = "Renderer::new" /\ ~last.ok) =>
        \A h \in CreatedSince(last.mark) : DestroyCount(calls, h) = 1

\* C9: with diagnostics enabled and the validation layer not among the
\* enumerated layers, context creation fails without any create-instance or
\* create-messenger call; and an instance created with diagnostics enabled
\* always names the validation layer.
C9_MissingLayerFailsBeforeInstance ==
    /\ (env.VALIDATION_ENABLED /\ VALIDATION_LAYER \notin env.layers) =>
         /\ \A i \in 1..Len(calls) :
              calls[i].op \notin {"create_instance", "create_debug_utils_messenger_ext"}
         /\ last.op = "Renderer::new" => ~last.ok
         /\ held = {}
    /\ \A i \in 1..Len(calls) :
         (calls[i].op = "create_instance" /\ env.VALIDATION_ENABLED) =>
             VALIDATION_LAYER \in Range(calls[i].layers)

C9_Witness ==
    /\ env.VALIDATION_ENABLED
    /\ VALIDATION_LAYER \notin env.layers
    /\ last.op = "Renderer::new"
    /\ last.err = Anyhow("Validation layer requested but not supported.")
    /\ calls = <<>>

\* A device is suitable when one of its queue families has the graphics bit.
Suitable(pd) == \E k \in 1..Len(env.devices[pd]) : "GRAPHICS" \in env.devices[pd][k]

\* C10: when the devices could be enumerated, pick_physical_device selects the
\* first suitable device, has logged one skip for each device before it and
\* then the selection, has asked the driver about no device after it, and
\* fails with the no-suitable-device error exactly when no device is suitable.
C10_FirstFit ==
    (last.op = "Context::pick_physical_device" /\ last.err.kind # "vk::ErrorCode") =>
        LET suitable == {pd \in 1..Len(env.devices) : Suitable(pd)}
            selected == last.data.physical_device
        IN /\ last.ok <=> suitable # {}
           /\ ~last.ok =>
                /\ last.err = Anyhow("Failed to find suitable physical device.")
                /\ selected = NullHandle
                /\ Len(log) = Len(env.devices)
                /\ \A pd \in 1..Len(log) :
                     /\ log[pd].level = "warn"
                     /\ log[pd].text = "Skipping physical device"
                     /\ log[pd].device = pd
           /\ last.ok =>
                /\ selected \in suitable
                /\ \A pd \in suitable : selected <= pd
                /\ Len(log) = selected
                /\ \A pd \in 1..(selected - 1) :
                     /\ log[pd].level = "warn"
                     /\ log[pd].text = "Skipping physical device"
                     /\ log[pd].device = pd
                /\ log[selected] = Record("info", "Selected physical device", selected, "")
                /\ \A i \in 1..Len(calls) : calls[i].physical_device <= selected

C10_Witness ==
    /\ last.op = "Context::pick_physical_device"
    /\ last.ok
    /\ last.data.physical_device = 2
    /\ Len(log) = 2
    /\ log[1].level = "warn"

\* C11: QueueFamilyIndices::get returns the smallest 0-based index of a family
\* whose flags include the graphics bit, and fails with the suitability error
\* exactly when no family has it.
C11_FirstGraphicsFamily ==
    last.op = "QueueFamilyIndices::get" =>
        LET families == env.devices[1]
            graphics == {k \in 1..Len(families) : "GRAPHICS" \in families[k]}
        IN /\ last.ok <=> graphics # {}
           /\ last.ok =>
                /\ last.ret + 1 \in graphics
                /\ \A k \in graphics : last.ret + 1 <= k
           /\ ~last.ok =>
                last.err = SuitabilityError("Missing required queue families.")

C11_Witness ==
    /\ last.op = "QueueFamilyIndices::get"
    /\ env.devices[1] = <<{"TRANSFER"}, {"GRAPHICS", "TRANSFER"}, {"COMPUTE"}>>
    /\ last.ok
    /\ last.ret = 1

\* C12: whenever Engine::new fails, for a window or for a context failure, it
\* returns the error to its caller; the failure does not end in a panic inside
\* Engine::new.
C12_EngineNewReturnsError ==
    (last.op = "Engine::new" /\ ~last.ok) =>
        /\ status = "running"
        /\ last.err # NoError

\* C13: when App::resumed has built the engine and the creation of the
\* secondary window fails, the application keeps running and the primary
\* window is still a key of both maps.
C13_SecondaryFailureIsLocal ==
    (last.op = "App::resumed" /\ engine # <<>>) =>
        /\ status = "running"
        /\ engine[1].primary_window_id \in WindowKeys
        /\ engine[1].primary_window_id \in RendererKeys

\* C14: every context stored in the renderers map is fully constructed: its
\* instance and its device are handles the driver handed out, its physical
\* device is one of the enumerated devices, its graphics queue was retrieved
\* from its device, and with diagnostics enabled its messenger was created.
C14_StoredContextsComplete ==
    \A id \in RendererKeys :
        LET context == engine[1].renderers[id].context
        IN /\ context.entry
           /\ context.instance \in Created(calls)
           /\ context.device \in Created(calls)
           /\ context.data.physical_device # NullHandle
           /\ context.data.physical_device \in 1..Len(env.devices)
           /\ context.data.graphics_queue # NullQueue
           /\ context.data.graphics_queue.device = context.device
           /\ env.VALIDATION_ENABLED => context.data.messenger \in Created(calls)
           /\ \E i \in 1..Len(calls) :
                 /\ calls[i].op = "create_device"
                 /\ calls[i].handle = context.device
                 /\ calls[i].instance = context.instance
                 /\ calls[i].physical_device = context.data.physical_device

\* A secondary context that failed after its instance was created is not in
\* the map, next to the complete context of the primary window.
C14_Witness ==
    /\ last.op = "Engine::create_window"
    /\ ~last.ok
    /\ CreatedSince(last.mark) # {}
    /\ Cardinality(RendererKeys) = 1
    /\ Cardinality(WindowKeys) = 2

\* C15: a step in which the driver invokes the debug callback, at any point
\* between the Engine's operations, leaves both maps, the primary window id,
\* every context and the driver's handles as they were.
C15_CallbackLeavesRegistry ==
    [][last'.op = "Context::debug_callback" =>
          /\ engine' = engine
          /\ held' = held
          /\ calls' = calls
          /\ next_window_id' = next_window_id
          /\ exiting' = exiting
          /\ status' = status]_vars

\* The callback ran after a secondary window was registered and before a
\* later creation of a context: its record precedes the records of that call.
C15_Witness ==
    /\ last.op = "Context::debug_callback"
    /\ Cardinality(RendererKeys) = 2
    /\ \E i \in CallbackRecords(log) :
          \E j \in (i + 1)..Len(log) : log[j].text = "Available layers:"

\* C16: every invocation of debug_callback appends exactly one record, at the
\* level error for ERROR, warn for WARNING, debug for INFO and trace for any
\* other severity, and the record carries the types and the message.
C16_SeverityToLevel ==
    [][last'.op = "Context::debug_callback" =>
          LET severity == last'.args[1]
              type_ == last'.args[2]
              message == last'.args[3]
              level ==
                  CASE severity = DebugUtilsMessageSeverityFlagsEXT.ERROR -> "error"
                    [] severity = DebugUtilsMessageSeverityFlagsEXT.WARNING -> "warn"
                    [] severity = DebugUtilsMessageSeverityFlagsEXT.INFO -> "debug"
                    [] OTHER -> "trace"
              types ==
                  CASE type_ = {"GENERAL"} -> "GENERAL"
                    [] type_ = {"VALIDATION"} -> "VALIDATION"
                    [] type_ = {"PERFORMANCE"} -> "PERFORMANCE"
                    [] type_ = {"GENERAL", "VALIDATION"} -> "GENERAL | VALIDATION"
                    [] type_ = {"GENERAL", "PERFORMANCE"} -> "GENERAL | PERFORMANCE"
                    [] type_ = {"VALIDATION", "PERFORMANCE"} -> "VALIDATION | PERFORMANCE"
                    [] OTHER -> "GENERAL | VALIDATION | PERFORMANCE"
          IN /\ Len(log') = Len(log) + 1
             /\ SubSeq(log', 1, Len(log)) = log
             /\ log'[Len(log')].level = level
             /\ log'[Len(log')].detail = "(" \o types \o ") " \o message]_vars

C16_Witness ==
    /\ last.op = "Context::debug_callback"
    /\ last.args = <<DebugUtilsMessageSeverityFlagsEXT.INFO,
                     {"GENERAL", "VALIDATION"}, "validation message">>
    /\ Len(log) = MaxMessages
    /\ log[Len(log)].level = "debug"
    /\ log[1].level = "error"

\* C17: debug_callback returns vk::FALSE for every severity, set of types and
\* message.
C17_CallbackReturnsFalse ==
    last.op = "Context::debug_callback" => last.ret = vk.FALSE

C17_Witness ==
    /\ last.op = "Context::debug_callback"
    /\ last.args[1] = DebugUtilsMessageSeverityFlagsEXT.ERROR
    /\ last.args[2] = {"VALIDATION"}
    /\ last.ret = vk.FALSE
    /\ log[Len(log)].level = "error"

\* C18: on every platform and with every driver version, a create_device call
\* names the portability-subset extension exactly when the create_instance
\* call of its instance named the two portability instance extensions and set
\* the portability-enumeration flag, and both exactly when the platform is
\* macOS and the version is at least 1.3.216.
C18_PortabilityAgrees ==
    LET version == env.version
        condition ==
            /\ env.macos
            /\ \/ version[1] > 1
               \/ version[1] = 1 /\ version[2] > 3
               \/ version[1] = 1 /\ version[2] = 3 /\ version[3] >= 216
        InstanceEnabled(c) ==
            /\ KHR_PORTABILITY_ENUMERATION \in Range(c.extensions)
            /\ KHR_GET_PHYSICAL_DEVICE_PROPERTIES2 \in Range(c.extensions)
            /\ ENUMERATE_PORTABILITY_KHR \in c.flags
        InstanceDisabled(c) ==
            /\ KHR_PORTABILITY_ENUMERATION \notin Range(c.extensions)
            /\ KHR_GET_PHYSICAL_DEVICE_PROPERTIES2 \notin Range(c.extensions)
            /\ ENUMERATE_PORTABILITY_KHR \notin c.flags
    IN \A i \in 1..Len(calls) :
          /\ calls[i].op = "create_instance" =>
                IF condition THEN InstanceEnabled(calls[i]) ELSE InstanceDisabled(calls[i])
          /\ calls[i].op = "create_device" =>
                /\ KHR_PORTABILITY_SUBSET \in Range(calls[i].extensions) <=> condition
                /\ \E j \in 1..(i - 1) :
                      /\ calls[j].op = "create_instance"
                      /\ calls[j].handle = calls[i].instance
                      /\ KHR_PORTABILITY_SUBSET \in Range(calls[i].extensions)
                            <=> InstanceEnabled(calls[j])

C18_Witness ==
    /\ env.macos
    /\ env.version = <<1, 3, 216>>
    /\ \E i \in 1..Len(calls) :
          /\ calls[i].op = "create_device"
          /\ calls[i].handle # NullHandle
          /\ KHR_PORTABILITY_SUBSET \in Range(calls[i].extensions)

\* C19: a context creation never fails with the suitability error, and every
\* create_device and get_device_queue call is made for the first suitable
\* device with the index of that device's first graphics family.
C19_GraphicsFamilyOfSelected ==
    /\ last.op = "Renderer::new" => last.err.kind # "SuitabilityError"
    /\ \A i \in 1..Len(calls) :
          calls[i].op \in {"create_device", "get_device_queue"} =>
             LET pd == calls[i].physical_device
             IN /\ pd \in 1..Len(env.devices)
                /\ Suitable(pd)
                /\ \A d \in 1..(pd - 1) : ~Suitable(d)
                /\ calls[i].family + 1 \in 1..Len(env.devices[pd])
                /\ "GRAPHICS" \in env.devices[pd][calls[i].family + 1]
                /\ \A k \in 1..calls[i].family : "GRAPHICS" \notin env.devices[pd][k]
    /\ \A i \in 1..Len(calls) :
          calls[i].op = "get_device_queue" =>
             /\ i > 1
             /\ calls[i - 1].op = "create_device"
             /\ calls[i - 1].handle = calls[i].handle
             /\ calls[i - 1].family = calls[i].family

\* The second device is selected and its second family is the graphics one.
C19_Witness ==
    /\ last.op = "Renderer::new"
    /\ last.ok
    /\ last.data.physical_device = 2
    /\ last.data.graphics_queue.family = 1
    /\ calls[Len(calls)].op = "get_device_queue"
    /\ calls[Len(calls)].family = 1

\* C20: Engine::window_event leaves both maps and the primary window id as
\* they were for every event other than CloseRequested and for a
\* CloseRequested whose window id is a key of neither map; a second
\* CloseRequested for a removed window is such a call.
C20_OtherEventsChangeNothing ==
    [][(/\ last'.op = "Engine::window_event"
        /\ \/ last'.event # "CloseRequested"
           \/ last'.window_id \notin (WindowKeys \cup RendererKeys))
          => engine' = engine /\ calls' = calls]_vars

\* The secondary window was registered with its context, has been closed, and
\* is closed again.
C20_Witness ==
    /\ last.op = "Engine::window_event"
    /\ last.event = "CloseRequested"
    /\ last.removed = {}
    /\ ~IsPrimary(last.window_id)
    /\ last.window_id \notin (WindowKeys \cup RendererKeys)
    /\ last.window_id < next_window_id
    /\ Cardinality({i \in 1..Len(calls) : calls[i].op = "get_device_queue"}) = MaxWindows
    /\ Cardinality(RendererKeys) = MaxWindows - 1

====
